---------------------------- MODULE Spec2Model ----------------------------
(***************************************************************************)
(* State-machine model of the sexagenary relationship and luck-cycle       *)
(* engine of the saju service (services/geminiService.ts).                 *)
(*                                                                         *)
(* Notation.  The module is ASCII only, so the Hanja and Hangul string     *)
(* literals of the source are written in romanised form:                   *)
(*   stems    (GAN)  jia yi bing ding wu4 ji geng xin ren gui   (pinyin)   *)
(*   branches (ZHI)  zi chou yin mao chen si wu3 wei shen you xu hai       *)
(*   (the tone digit tells the stem wu4 from the branch wu3)               *)
(*   Ten God labels  bigyeon geopjae siksin sanggwan pyeonjae jeongjae     *)
(*                   pyeongwan jeonggwan pyeonin jeongin, and ilwon for    *)
(*                   the Day Master's own label                            *)
(* JavaScript arrays are 0-based: At(arr, i) reads arr[i], IndexOf is      *)
(* Array.prototype.indexOf (-1 when absent), Lookup reads a Record         *)
(* (Undefined when the key is absent), JsRem is the % operator (the        *)
(* remainder takes the sign of the dividend).                              *)
(* Ages carry at most one decimal digit in the source; they are held as    *)
(* integer tenths (an age of 4.3 is 43).                                   *)
(***************************************************************************)
EXTENDS Integers, Sequences, FiniteSets, TLC

VARIABLES
    cycle,      \* a run of getGanZhiFromIndex / getGanZhiIndex
    tenGod,     \* a call of getTenGod
    tally,      \* the element counting loop of analyzeSaju
    pillar,     \* a call of createPillar inside analyzeSaju
    daeunCall,  \* a call of calculateDaeun
    saeunCall,  \* a call of calculateSaeun
    wolunCall,  \* a call of calculateWolun
    analysis,   \* a call of analyzeSaju
    charTally,  \* the element counting loop over any eight strings
    consult     \* a call of consultSaju

vars == <<cycle, tenGod, tally, pillar, daeunCall, saeunCall, wolunCall, analysis, charTally, consult>>

---------------------------------------------------------------------------
(* JavaScript primitives *)

Undefined == "undefined"

JsRem(a, n) == IF a >= 0 THEN a % n ELSE -((-a) % n)

At(arr, i) == IF i \in 0..(Len(arr) - 1) THEN arr[i + 1] ELSE Undefined

RECURSIVE IndexFrom(_, _, _)
IndexFrom(arr, x, i) ==
    IF i >= Len(arr) THEN -1
    ELSE IF At(arr, i) = x THEN i
    ELSE IndexFrom(arr, x, i + 1)

IndexOf(arr, x) == IndexFrom(arr, x, 0)

Includes(arr, x) == \E i \in 0..(Len(arr) - 1) : At(arr, i) = x

Lookup(map, key) == IF key \in DOMAIN map THEN map[key] ELSE Undefined

---------------------------------------------------------------------------
(* 1. Static data and lookup tables *)

GAN == <<"jia", "yi", "bing", "ding", "wu4", "ji", "geng", "xin", "ren", "gui">>
ZHI == <<"zi", "chou", "yin", "mao", "chen", "si", "wu3", "wei", "shen", "you", "xu", "hai">>
GAN_KOR == <<"gap", "eul", "byeong", "jeong", "mu", "gi", "gyeong", "sin", "im", "gye">>
ZHI_KOR == <<"ja", "chuk", "in", "myo", "jin", "sa", "o", "mi", "sin", "yu", "sul", "hae">>

ELEMENT_MAP ==
    ("jia" :> "Wood") @@ ("yi" :> "Wood") @@ ("yin" :> "Wood") @@ ("mao" :> "Wood") @@
    ("bing" :> "Fire") @@ ("ding" :> "Fire") @@ ("si" :> "Fire") @@ ("wu3" :> "Fire") @@
    ("wu4" :> "Earth") @@ ("ji" :> "Earth") @@ ("chen" :> "Earth") @@ ("xu" :> "Earth") @@
    ("chou" :> "Earth") @@ ("wei" :> "Earth") @@
    ("geng" :> "Metal") @@ ("xin" :> "Metal") @@ ("shen" :> "Metal") @@ ("you" :> "Metal") @@
    ("ren" :> "Water") @@ ("gui" :> "Water") @@ ("hai" :> "Water") @@ ("zi" :> "Water")

COLOR_MAP ==
    ("Wood" :> "#4A7c59") @@ ("Fire" :> "#D9534F") @@ ("Earth" :> "#Eebb4d") @@
    ("Metal" :> "#Aaaaaa") @@ ("Water" :> "#292b2c")

\* Rows: Day Stem (0 = jia ... 9 = gui).  Columns: target Stem.
\* The table with the two Wealth labels of the bing row exchanged.
TEN_GODS_MAP_swapped == <<
    <<"bigyeon", "geopjae", "siksin", "sanggwan", "pyeonjae", "jeongjae", "pyeongwan", "jeonggwan", "pyeonin", "jeongin">>,
    <<"geopjae", "bigyeon", "sanggwan", "siksin", "jeongjae", "pyeonjae", "jeonggwan", "pyeongwan", "jeongin", "pyeonin">>,
    <<"pyeonin", "jeongin", "bigyeon", "geopjae", "siksin", "sanggwan", "jeongjae", "pyeonjae", "pyeongwan", "jeonggwan">>,
    <<"jeongin", "pyeonin", "geopjae", "bigyeon", "sanggwan", "siksin", "jeongjae", "pyeonjae", "jeonggwan", "pyeongwan">>,
    <<"pyeongwan", "jeonggwan", "pyeonin", "jeongin", "bigyeon", "geopjae", "siksin", "sanggwan", "pyeonjae", "jeongjae">>,
    <<"jeonggwan", "pyeongwan", "jeongin", "pyeonin", "geopjae", "bigyeon", "sanggwan", "siksin", "jeongjae", "pyeonjae">>,
    <<"pyeonjae", "jeongjae", "pyeongwan", "jeonggwan", "pyeonin", "jeongin", "bigyeon", "geopjae", "siksin", "sanggwan">>,
    <<"jeongjae", "pyeonjae", "jeonggwan", "pyeongwan", "jeongin", "pyeonin", "geopjae", "bigyeon", "sanggwan", "siksin">>,
    <<"siksin", "sanggwan", "pyeonjae", "jeongjae", "pyeongwan", "jeonggwan", "pyeonin", "jeongin", "bigyeon", "geopjae">>,
    <<"sanggwan", "siksin", "jeongjae", "pyeonjae", "jeonggwan", "pyeongwan", "jeongin", "pyeonin", "geopjae", "bigyeon">>
>>

TEN_GODS_MAP == <<
    <<"bigyeon", "geopjae", "siksin", "sanggwan", "pyeonjae", "jeongjae", "pyeongwan", "jeonggwan", "pyeonin", "jeongin">>,
    <<"geopjae", "bigyeon", "sanggwan", "siksin", "jeongjae", "pyeonjae", "jeonggwan", "pyeongwan", "jeongin", "pyeonin">>,
    <<"pyeonin", "jeongin", "bigyeon", "geopjae", "siksin", "sanggwan", "pyeonjae", "jeongjae", "pyeongwan", "jeonggwan">>,
    <<"jeongin", "pyeonin", "geopjae", "bigyeon", "sanggwan", "siksin", "jeongjae", "pyeonjae", "jeonggwan", "pyeongwan">>,
    <<"pyeongwan", "jeonggwan", "pyeonin", "jeongin", "bigyeon", "geopjae", "siksin", "sanggwan", "pyeonjae", "jeongjae">>,
    <<"jeonggwan", "pyeongwan", "jeongin", "pyeonin", "geopjae", "bigyeon", "sanggwan", "siksin", "jeongjae", "pyeonjae">>,
    <<"pyeonjae", "jeongjae", "pyeongwan", "jeonggwan", "pyeonin", "jeongin", "bigyeon", "geopjae", "siksin", "sanggwan">>,
    <<"jeongjae", "pyeonjae", "jeonggwan", "pyeongwan", "jeongin", "pyeonin", "geopjae", "bigyeon", "sanggwan", "siksin">>,
    <<"siksin", "sanggwan", "pyeonjae", "jeongjae", "pyeongwan", "jeonggwan", "pyeonin", "jeongin", "bigyeon", "geopjae">>,
    <<"sanggwan", "siksin", "jeongjae", "pyeonjae", "jeonggwan", "pyeongwan", "jeongin", "pyeonin", "geopjae", "bigyeon">>
>>

\* The mapping with chou sent to gui, a hidden stem of chou that is not its
\* main qi.
BRANCH_MAIN_QI_hiddenStem ==
    ("zi" :> "gui") @@ ("chou" :> "gui") @@ ("yin" :> "jia") @@ ("mao" :> "yi") @@
    ("chen" :> "wu4") @@ ("si" :> "bing") @@ ("wu3" :> "ding") @@ ("wei" :> "ji") @@
    ("shen" :> "geng") @@ ("you" :> "xin") @@ ("xu" :> "wu4") @@ ("hai" :> "ren")

\* Branch -> its main-qi Stem, used when a Branch is compared as a Stem.
BRANCH_MAIN_QI ==
    ("zi" :> "gui") @@ ("chou" :> "ji") @@ ("yin" :> "jia") @@ ("mao" :> "yi") @@
    ("chen" :> "wu4") @@ ("si" :> "bing") @@ ("wu3" :> "ding") @@ ("wei" :> "ji") @@
    ("shen" :> "geng") @@ ("you" :> "xin") @@ ("xu" :> "wu4") @@ ("hai" :> "ren")

Stems == {GAN[i] : i \in 1..Len(GAN)}
Branches == {ZHI[i] : i \in 1..Len(ZHI)}

\* A symbol that belongs to neither set (malformed input).
Malformed == "x"

---------------------------------------------------------------------------
(* 2. Helper functions *)

getKoreanChar(hanja) ==
    LET ganIdx == IndexOf(GAN, hanja)
        zhiIdx == IndexOf(ZHI, hanja)
    IN  IF ganIdx # -1 THEN At(GAN_KOR, ganIdx)
        ELSE IF zhiIdx # -1 THEN At(ZHI_KOR, zhiIdx)
        ELSE ""

\* getTenGod with the Day Master's display label moved into the resolver.
getTenGod_selfLabel(dayStem, target) ==
    IF dayStem = target THEN "ilwon"
    ELSE LET dayIdx == IndexOf(GAN, dayStem)
             targetStem == IF Includes(ZHI, target) THEN Lookup(BRANCH_MAIN_QI, target)
                           ELSE target
             targetIdx == IndexOf(GAN, targetStem)
         IN  IF dayIdx = -1 \/ targetIdx = -1 THEN ""
             ELSE TEN_GODS_MAP[dayIdx + 1][targetIdx + 1]

\* getTenGod without the main-qi substitution of a Branch target.
getTenGod_noMainQi(dayStem, target) ==
    IF dayStem = target THEN "bigyeon"
    ELSE LET dayIdx == IndexOf(GAN, dayStem)
             targetIdx == IndexOf(GAN, target)
         IN  IF dayIdx = -1 \/ targetIdx = -1 THEN ""
             ELSE TEN_GODS_MAP[dayIdx + 1][targetIdx + 1]

getTenGod(dayStem, target) ==
    IF dayStem = target THEN "bigyeon"
    ELSE LET dayIdx == IndexOf(GAN, dayStem)
             targetStem == IF Includes(ZHI, target) THEN Lookup(BRANCH_MAIN_QI, target)
                           ELSE target
             targetIdx == IndexOf(GAN, targetStem)
         IN  IF dayIdx = -1 \/ targetIdx = -1 THEN ""
             ELSE TEN_GODS_MAP[dayIdx + 1][targetIdx + 1]

\* The length of the sexagenary cycle.
CycleLen == 60

\* The scan answering -1, as indexOf does, when no position matches.
RECURSIVE ScanGanZhi_notFound(_, _, _)
ScanGanZhi_notFound(stem, branch, i) ==
    IF i >= CycleLen THEN -1
    ELSE IF At(GAN, JsRem(i, 10)) = stem /\ At(ZHI, JsRem(i, 12)) = branch THEN i
    ELSE ScanGanZhi_notFound(stem, branch, i + 1)

\* The scan of positions i, i+1, ... of getGanZhiIndex's for loop.
RECURSIVE ScanGanZhi(_, _, _)
ScanGanZhi(stem, branch, i) ==
    IF i >= CycleLen THEN 0
    ELSE IF At(GAN, JsRem(i, 10)) = stem /\ At(ZHI, JsRem(i, 12)) = branch THEN i
    ELSE ScanGanZhi(stem, branch, i + 1)

\* getGanZhiIndex computed as stem ordinal * 12 + branch ordinal (the formula
\* the source's comment warns against).
getGanZhiIndex_product(stem, branch) ==
    JsRem(IndexOf(GAN, stem) * 12 + IndexOf(ZHI, branch), CycleLen)

\* getGanZhiIndex matching on the branch alone.
getGanZhiIndex_branchOnly(stem, branch) ==
    LET zhiIdx == IndexOf(ZHI, branch)
    IN  IF zhiIdx = -1 THEN 0 ELSE zhiIdx

getGanZhiIndex(stem, branch) == ScanGanZhi(stem, branch, 0)

\* getGanZhiFromIndex without the "+ 60" that makes negative remainders positive.
getGanZhiFromIndex_noNormalize(index) ==
    LET normalizedIndex == JsRem(index, CycleLen)
    IN  [stem |-> At(GAN, JsRem(normalizedIndex, 10)),
         branch |-> At(ZHI, JsRem(normalizedIndex, 12))]

\* getGanZhiFromIndex reading the branch with the stems' modulus.
getGanZhiFromIndex_branchMod10(index) ==
    LET normalizedIndex == JsRem(JsRem(index, CycleLen) + CycleLen, CycleLen)
    IN  [stem |-> At(GAN, JsRem(normalizedIndex, 10)),
         branch |-> At(ZHI, JsRem(normalizedIndex, 10))]

getGanZhiFromIndex(index) ==
    LET normalizedIndex == JsRem(JsRem(index, CycleLen) + CycleLen, CycleLen)
    IN  [stem |-> At(GAN, JsRem(normalizedIndex, 10)),
         branch |-> At(ZHI, JsRem(normalizedIndex, 12))]

---------------------------------------------------------------------------
(* Idle values of the components a specification does not exercise *)

NoPair == [stem |-> "", branch |-> ""]

CycleIdle == [origin |-> "none", p |-> 0, given |-> NoPair, steps |-> 0,
              last |-> "none", index |-> 0, pair |-> NoPair]
TenGodIdle == [pc |-> "idle", dayStem |-> "", target |-> "", ret |-> ""]
ZeroCounts == [Wood |-> 0, Fire |-> 0, Earth |-> 0, Metal |-> 0, Water |-> 0]
TallyIdle == [pc |-> "idle", k |-> 0, char |-> "", counts |-> ZeroCounts]
CharTallyIdle == [pc |-> "idle", k |-> 0, allChars |-> <<>>, counts |-> ZeroCounts]
NoPillar == [stem |-> "", stemKorean |-> "", stemTenGod |-> "", branch |-> "",
             branchKorean |-> "", branchTenGod |-> "", element |-> "", color |-> ""]
PillarIdle == [pc |-> "idle", dayStem |-> "", slot |-> "", stem |-> "", branch |-> "",
               ret |-> NoPillar]
NoDaeunArgs == [birthYear |-> 0, birthMonth |-> 1, birthDay |-> 1, gender |-> "male",
                monthStem |-> "", monthBranch |-> "", yearStem |-> ""]
NoDaeunRet == [daeun |-> <<>>, startAge |-> 0]
DaeunIdle == [pc |-> "idle", args |-> NoDaeunArgs, ret |-> NoDaeunRet]
SaeunIdle == [pc |-> "idle", birthYear |-> 0, ret |-> <<>>]
WolunIdle == [pc |-> "idle", birthYear |-> 0, ret |-> <<>>]
NoInput == [birthYear |-> 0, birthMonth |-> 1, birthDay |-> 1, gender |-> "male",
            yearStem |-> "", yearBranch |-> "", monthStem |-> "", monthBranch |-> "",
            dayStem |-> "", dayBranch |-> "", hourStem |-> "", hourBranch |-> ""]
NoLocal == [counts |-> ZeroCounts, yearPillar |-> NoPillar, monthPillar |-> NoPillar,
            dayPillar |-> NoPillar, hourPillar |-> NoPillar]
NoResult == [yearPillar |-> NoPillar, monthPillar |-> NoPillar, dayPillar |-> NoPillar,
             hourPillar |-> NoPillar, elementCounts |-> ZeroCounts,
             missingElements |-> "", dayMasterReading |-> "", chaeumAdvice |-> "",
             healthAnalysis |-> "", fortune2026 |-> "", luckyTable |-> "",
             daeun |-> <<>>, saeun |-> <<>>, wolun |-> <<>>,
             birthYear |-> 0, birthMonth |-> 0, daeunStartAge |-> 0]
AnalysisIdle == [pc |-> "idle", input |-> NoInput, aiSet |-> FALSE, apiKey |-> "", keyChanges |-> 0,
                 calls |-> 0,
                 local |-> NoLocal, text |-> "", result |-> NoResult, error |-> ""]

ConsultIdle == [pc |-> "idle", contextOk |-> FALSE, aiSet |-> FALSE, given |-> <<>>,
                chatHistory |-> <<>>, created |-> FALSE, history |-> <<>>,
                answer |-> "", error |-> ""]

---------------------------------------------------------------------------
(* The cycle indexer: a run starts from a position or from a (stem, branch)   *)
(* pair and applies getGanZhiFromIndex and getGanZhiIndex in turn, each to    *)
(* the value the other returned.                                              *)

\* Positions given to getGanZhiFromIndex range over -MaxIndex..MaxIndex.
MaxIndex == 130

\* Applications of the two functions in one run.
MaxSteps == 2

PairInputs == [stem : Stems \cup {Malformed}, branch : Branches \cup {Malformed}]

CycleInit ==
    \/ \E p \in (-MaxIndex)..MaxIndex :
          cycle = [CycleIdle EXCEPT !.origin = "index", !.p = p, !.last = "index", !.index = p]
    \/ \E g \in PairInputs :
          cycle = [CycleIdle EXCEPT !.origin = "pair", !.given = g, !.last = "pair", !.pair = g]

GetGanZhiFromIndex ==
    /\ cycle.last = "index"
    /\ cycle.steps < MaxSteps
    /\ cycle' = [cycle EXCEPT !.pair = getGanZhiFromIndex(cycle.index),
                              !.last = "pair", !.steps = @ + 1]
    /\ UNCHANGED <<tenGod, tally, pillar, daeunCall, saeunCall, wolunCall, analysis, charTally, consult>>

GetGanZhiIndex ==
    /\ cycle.last = "pair"
    /\ cycle.steps < MaxSteps
    /\ cycle' = [cycle EXCEPT !.index = getGanZhiIndex(cycle.pair.stem, cycle.pair.branch),
                              !.last = "index", !.steps = @ + 1]
    /\ UNCHANGED <<tenGod, tally, pillar, daeunCall, saeunCall, wolunCall, analysis, charTally, consult>>

---------------------------------------------------------------------------
(* The Ten-God resolver: one call of getTenGod *)

Symbols == Stems \cup Branches \cup {Malformed}

TenGodInit ==
    \E d \in Symbols, t \in Symbols :
        tenGod = [pc |-> "call", dayStem |-> d, target |-> t, ret |-> ""]

GetTenGod ==
    /\ tenGod.pc = "call"
    /\ tenGod' = [tenGod EXCEPT !.pc = "done", !.ret = getTenGod(tenGod.dayStem, tenGod.target)]
    /\ UNCHANGED <<cycle, tally, pillar, daeunCall, saeunCall, wolunCall, analysis, charTally, consult>>

---------------------------------------------------------------------------
(* 3. analyzeSaju: the element counting loop.  The eight symbols come from   *)
(* the calendar converter in the order yearStem, yearBranch, monthStem,      *)
(* monthBranch, dayStem, dayBranch, hourStem, hourBranch; each is drawn when *)
(* forEach reaches it.                                                       *)

\* allChars.length
NumChars == 8

\* ELEMENT_MAP read as if it lacked the two Earth branches chou and wei.
elementOf_missingEarth(char) ==
    IF char \in {"chou", "wei"} THEN Undefined ELSE Lookup(ELEMENT_MAP, char)

\* ELEMENT_MAP[char]
elementOf(char) == Lookup(ELEMENT_MAP, char)

\* The callback counting a symbol without an element as Earth, the fallback
\* createPillar uses.
CountChar_earthFallback(counts, char) ==
    LET el == IF elementOf(char) # Undefined THEN elementOf(char) ELSE "Earth"
    IN  [counts EXCEPT ![el] = @ + 1]

\* The forEach callback: const el = ELEMENT_MAP[char]; if (el) counts[el]++.
CountChar(counts, char) ==
    LET el == elementOf(char)
    IN  IF el # Undefined THEN [counts EXCEPT ![el] = @ + 1] ELSE counts

\* The symbols the converter can put at position k of allChars.
CharInputs(k) == IF k % 2 = 0 THEN Stems ELSE Branches

TallyInit == tally = [pc |-> "loop", k |-> 0, char |-> "", counts |-> ZeroCounts]

TallyStep ==
    /\ tally.pc = "loop"
    /\ tally.k < NumChars
    /\ \E char \in CharInputs(tally.k) :
          tally' = [tally EXCEPT !.char = char, !.k = @ + 1,
                                 !.counts = CountChar(tally.counts, char)]
    /\ UNCHANGED <<cycle, tenGod, pillar, daeunCall, saeunCall, wolunCall, analysis, charTally, consult>>

TallyDone ==
    /\ tally.pc = "loop"
    /\ tally.k = NumChars
    /\ tally' = [tally EXCEPT !.pc = "done"]
    /\ UNCHANGED <<cycle, tenGod, pillar, daeunCall, saeunCall, wolunCall, analysis, charTally, consult>>

---------------------------------------------------------------------------
(* analyzeSaju: the element counting loop over the whole array allChars, of   *)
(* which any entry may be a string ELEMENT_MAP has no key for.               *)

\* The strings tried at each position of allChars.
SampleChars ==
    << {"jia", "geng", Malformed}, {"zi", "chou", Malformed},
       {"bing", "wu4", Malformed}, {"yin", "si", Malformed},
       {"ren", "jia", Malformed}, {"you", "wei", Malformed},
       {"ding", "xin", Malformed}, {"hai", "wu3", Malformed} >>

CharTallyInit ==
    \E c1 \in SampleChars[1], c2 \in SampleChars[2], c3 \in SampleChars[3],
       c4 \in SampleChars[4], c5 \in SampleChars[5], c6 \in SampleChars[6],
       c7 \in SampleChars[7], c8 \in SampleChars[8] :
        charTally = [pc |-> "loop", k |-> 0,
                     allChars |-> <<c1, c2, c3, c4, c5, c6, c7, c8>>,
                     counts |-> ZeroCounts]

CharTallyStep ==
    /\ charTally.pc = "loop"
    /\ charTally.k < Len(charTally.allChars)
    /\ charTally' = [charTally EXCEPT
                       !.k = @ + 1,
                       !.counts = CountChar(charTally.counts, charTally.allChars[charTally.k + 1])]
    /\ UNCHANGED <<cycle, tenGod, tally, pillar, daeunCall, saeunCall, wolunCall, analysis, consult>>

CharTallyDone ==
    /\ charTally.pc = "loop"
    /\ charTally.k = Len(charTally.allChars)
    /\ charTally' = [charTally EXCEPT !.pc = "done"]
    /\ UNCHANGED <<cycle, tenGod, tally, pillar, daeunCall, saeunCall, wolunCall, analysis, consult>>

---------------------------------------------------------------------------
(* 3. analyzeSaju: createPillar, a closure over dayStem.  It is called for   *)
(* the year, month, day and hour pillars; the day pillar's stem is dayStem.  *)

\* createPillar with the colour keyed by the Branch's element.
createPillar_branchColor(dayStem, stem, branch) ==
    [stem |-> stem,
     stemKorean |-> getKoreanChar(stem),
     stemTenGod |-> IF stem = dayStem THEN "ilwon" ELSE getTenGod(dayStem, stem),
     branch |-> branch,
     branchKorean |-> getKoreanChar(branch),
     branchTenGod |-> getTenGod(dayStem, branch),
     element |-> IF elementOf(stem) # Undefined THEN elementOf(stem) ELSE "Earth",
     color |-> Lookup(COLOR_MAP, elementOf(branch))]

createPillar(dayStem, stem, branch) ==
    [stem |-> stem,
     stemKorean |-> getKoreanChar(stem),
     stemTenGod |-> IF stem = dayStem THEN "ilwon" ELSE getTenGod(dayStem, stem),
     branch |-> branch,
     branchKorean |-> getKoreanChar(branch),
     branchTenGod |-> getTenGod(dayStem, branch),
     element |-> IF elementOf(stem) # Undefined THEN elementOf(stem) ELSE "Earth",
     color |-> Lookup(COLOR_MAP, elementOf(stem))]

Slots == {"year", "month", "day", "hour"}

PillarInit ==
    \E d \in Stems, slot \in Slots, st \in Stems, br \in Branches :
        /\ slot = "day" => st = d
        /\ pillar = [pc |-> "call", dayStem |-> d, slot |-> slot, stem |-> st,
                     branch |-> br, ret |-> NoPillar]

CreatePillar ==
    /\ pillar.pc = "call"
    /\ pillar' = [pillar EXCEPT !.pc = "done",
                                !.ret = createPillar(pillar.dayStem, pillar.stem, pillar.branch)]
    /\ UNCHANGED <<cycle, tenGod, tally, daeunCall, saeunCall, wolunCall, analysis, charTally, consult>>

---------------------------------------------------------------------------
(* calculateDaeun.  Numbers with a fractional part are held as integer       *)
(* tenths: startAge and every entry's startAge and endAge.                   *)

\* Rounding with a half going away from zero, as in most other languages.
MathRound_halfAwayFromZero(num, den) ==
    IF num >= 0 THEN (2 * num + den) \div (2 * den)
    ELSE -((2 * (-num) + den) \div (2 * den))

\* Math.round(num / den) for den > 0: the nearest integer, a half rounding up.
MathRound(num, den) == (2 * num + den) \div (2 * den)

\* Math.floor of a number held in tenths.
MathFloor(tenths) == tenths \div 10

MathAbs(n) == IF n < 0 THEN -n ELSE n

\* Only the Yang-male half of the rule.
IsForward_yangMaleOnly(yearStem, gender) ==
    LET yearStemIdx == IndexOf(GAN, yearStem)
        isYangYear == JsRem(yearStemIdx, 2) = 0
        isMale == gender = "male"
    IN  isYangYear /\ isMale

IsForward(yearStem, gender) ==
    LET yearStemIdx == IndexOf(GAN, yearStem)
        isYangYear == JsRem(yearStemIdx, 2) = 0
        isMale == gender = "male"
    IN  (isYangYear /\ isMale) \/ (~isYangYear /\ ~isMale)

\* A table that gives February 29 days.
daysInMonth_leap == <<31, 29, 31, 30, 31, 30, 31, 31, 30, 31, 30, 31>>

daysInMonth == <<31, 28, 31, 30, 31, 30, 31, 31, 30, 31, 30, 31>>

\* Math.round(daysInMonth[birthMonth - 1] / 2 - birthDay + 15), made positive.
\* The argument of Math.round is (L - 2 * birthDay + 30) / 2, exact in a double.
RoundedDays(birthMonth, birthDay) ==
    MathRound(At(daysInMonth, birthMonth - 1) - 2 * birthDay + 30, 2)

\* if (daysToJeolgi < 0) daysToJeolgi = Math.abs(daysToJeolgi)
DaysToJeolgi(birthMonth, birthDay) ==
    LET rounded == RoundedDays(birthMonth, birthDay)
    IN  IF rounded < 0 THEN MathAbs(rounded) ELSE rounded

\* Math.round((daysToJeolgi / 3) * 10) / 10, in tenths.  10 * d / 3 is never
\* half way between two integers, so the double's rounding error decides nothing.
StartAge(daysToJeolgi) == MathRound(10 * daysToJeolgi, 3)

\* The cycle position of entry i, stepping by i instead of i + 1.
DaeunGanZhiIdx_offByOne(isForward, monthGanZhiIdx, i) ==
    IF isForward THEN monthGanZhiIdx + i ELSE monthGanZhiIdx - i

DaeunGanZhiIdx(isForward, monthGanZhiIdx, i) ==
    IF isForward THEN monthGanZhiIdx + i + 1 ELSE monthGanZhiIdx - i - 1

\* The starting age of a later entry without the whole years of startAge.
AgeStart_noFloor(startAge, i) ==
    IF i = 0 THEN startAge ELSE (i * 10) * 10

AgeStart(startAge, i) ==
    IF i = 0 THEN startAge ELSE (MathFloor(startAge) + (i * 10)) * 10

\* The ending age without the "- 1".
AgeEnd_noMinusOne(startAge, i) == (MathFloor(startAge) + ((i + 1) * 10)) * 10

AgeEnd(startAge, i) == (MathFloor(startAge) + ((i + 1) * 10) - 1) * 10

\* calculateDaeun with the starting year rounded to the nearest year.
calculateDaeun_roundedYear(birthYear, birthMonth, birthDay, gender, monthStem, monthBranch, yearStem) ==
    LET isForward == IsForward(yearStem, gender)
        monthGanZhiIdx == getGanZhiIndex(monthStem, monthBranch)
        startAge == StartAge(DaysToJeolgi(birthMonth, birthDay))
        entry(i) ==
            LET gz == getGanZhiFromIndex(DaeunGanZhiIdx(isForward, monthGanZhiIdx, i))
                ageStart == AgeStart(startAge, i)
            IN  [startAge |-> ageStart,
                 endAge |-> AgeEnd(startAge, i),
                 stem |-> gz.stem,
                 branch |-> gz.branch,
                 stemKorean |-> getKoreanChar(gz.stem),
                 branchKorean |-> getKoreanChar(gz.branch),
                 startYear |-> birthYear + MathRound(ageStart, 10)]
    IN  [daeun |-> [n \in 1..13 |-> entry(n - 1)], startAge |-> startAge]

\* The number of Decade Entries.
NumDaeun == 13

calculateDaeun(birthYear, birthMonth, birthDay, gender, monthStem, monthBranch, yearStem) ==
    LET isForward == IsForward(yearStem, gender)
        monthGanZhiIdx == getGanZhiIndex(monthStem, monthBranch)
        startAge == StartAge(DaysToJeolgi(birthMonth, birthDay))
        entry(i) ==
            LET gz == getGanZhiFromIndex(DaeunGanZhiIdx(isForward, monthGanZhiIdx, i))
                ageStart == AgeStart(startAge, i)
            IN  [startAge |-> ageStart,
                 endAge |-> AgeEnd(startAge, i),
                 stem |-> gz.stem,
                 branch |-> gz.branch,
                 stemKorean |-> getKoreanChar(gz.stem),
                 branchKorean |-> getKoreanChar(gz.branch),
                 startYear |-> birthYear + MathFloor(ageStart)]
    IN  [daeun |-> [n \in 1..NumDaeun |-> entry(n - 1)], startAge |-> startAge]

\* The year of cycle position 0; birth years are drawn from it onwards.
AnchorYear == 1984

\* Birth years range over AnchorYear..AnchorYear + YearSpan.
YearSpan == 1

\* Birth days range over 1..MaxDay.
MaxDay == 31

Genders == {"male", "female"}

\* The arguments of a call.  The ages are computed from the birth date alone and
\* the pairs from the gender and the pillars alone, and the full product has
\* 1.8 million calls, so the arguments are drawn from two slices: every gender,
\* year stem and month pair (the 120 month pairs include the 60 that never
\* occur in the cycle) at the reference date, and every birth date at the
\* reference pillars.
ReferenceMonths == {5}
ReferenceDays == {15}
ReferenceMonthStems == {"bing"}
ReferenceMonthBranches == {"yin"}
ReferenceYearStems == {"jia", "yi"}

DaeunArgs ==
    [birthYear : AnchorYear..(AnchorYear + YearSpan),
     birthMonth : ReferenceMonths,
     birthDay : ReferenceDays,
     gender : Genders,
     monthStem : Stems,
     monthBranch : Branches,
     yearStem : Stems]
    \cup
    [birthYear : AnchorYear..(AnchorYear + YearSpan),
     birthMonth : 1..Len(daysInMonth),
     birthDay : 1..MaxDay,
     gender : Genders,
     monthStem : ReferenceMonthStems,
     monthBranch : ReferenceMonthBranches,
     yearStem : ReferenceYearStems]

DaeunInit ==
    \E a \in DaeunArgs : daeunCall = [pc |-> "call", args |-> a, ret |-> NoDaeunRet]

CalculateDaeun ==
    /\ daeunCall.pc = "call"
    /\ LET a == daeunCall.args
       IN  daeunCall' = [daeunCall EXCEPT
               !.pc = "done",
               !.ret = calculateDaeun(a.birthYear, a.birthMonth, a.birthDay, a.gender,
                                      a.monthStem, a.monthBranch, a.yearStem)]
    /\ UNCHANGED <<cycle, tenGod, tally, pillar, saeunCall, wolunCall, analysis, charTally, consult>>

---------------------------------------------------------------------------
(* calculateSaeun and calculateWolun *)

\* Birth years given to calculateSaeun and calculateWolun range over
\* AnchorYear - YearsBefore .. AnchorYear + YearsAfter.
YearsBefore == 134
YearsAfter == 66

BirthYears == (AnchorYear - YearsBefore)..(AnchorYear + YearsAfter)

\* The cycle position of a calendar year, counted from the wrong anchor year.
YearGanZhiIdx_anchorOff(currentYear) ==
    LET yearOffset == currentYear - (AnchorYear - 1)
    IN  JsRem(JsRem(yearOffset, CycleLen) + CycleLen, CycleLen)

\* The cycle position of a calendar year without the "+ 60".
YearGanZhiIdx_noNormalize(currentYear) ==
    LET yearOffset == currentYear - AnchorYear
    IN  JsRem(yearOffset, CycleLen)

\* ((currentYear - 1984) % 60 + 60) % 60
YearGanZhiIdx(currentYear) ==
    LET yearOffset == currentYear - AnchorYear
    IN  JsRem(JsRem(yearOffset, CycleLen) + CycleLen, CycleLen)

\* The last age of the Year Cycle.
NumSaeun == 110

calculateSaeun(birthYear) ==
    [age \in 1..NumSaeun |->
        LET currentYear == birthYear + age - 1
            ganZhiIdx == YearGanZhiIdx(currentYear)
            stem == At(GAN, JsRem(ganZhiIdx, 10))
            branch == At(ZHI, JsRem(ganZhiIdx, 12))
        IN  [year |-> currentYear,
             age |-> age,
             stem |-> stem,
             branch |-> branch,
             stemKorean |-> getKoreanChar(stem),
             branchKorean |-> getKoreanChar(branch)]]

SaeunInit ==
    \E y \in BirthYears : saeunCall = [pc |-> "call", birthYear |-> y, ret |-> <<>>]

CalculateSaeun ==
    /\ saeunCall.pc = "call"
    /\ saeunCall' = [saeunCall EXCEPT !.pc = "done",
                                      !.ret = calculateSaeun(saeunCall.birthYear)]
    /\ UNCHANGED <<cycle, tenGod, tally, pillar, daeunCall, wolunCall, analysis, charTally, consult>>

\* The years and the months per year of the Month Cycle.
NumWolunYears == 60
NumWolunMonths == 12

\* The stem index of the first (Tiger) month, by the year's stem ordinal.
\* The table with its last entry repeating the first.
monthStemStart_lastWrong == <<2, 4, 6, 8, 0, 2, 4, 6, 8, 2>>

monthStemStart == <<2, 4, 6, 8, 0, 2, 4, 6, 8, 0>>

\* The month's branch index without the offset to the Tiger branch.
MonthBranchIdx_noOffset(monthNum) == JsRem(monthNum, 12)

MonthBranchIdx(monthNum) == JsRem(monthNum + 1, 12)

\* The entry pushed for yearOffset and monthNum, with the month counted from 0.
WolunEntry_monthFromZero(birthYear, yearOffset, monthNum) ==
    LET currentYear == birthYear + yearOffset
        yearGanZhiIdx == YearGanZhiIdx(currentYear)
        yearGan == At(GAN, JsRem(yearGanZhiIdx, 10))
        yearGanIdx == IndexOf(GAN, yearGan)
        monthStemStartIdx == At(monthStemStart, yearGanIdx)
        monthStemIdx == JsRem(monthStemStartIdx + monthNum - 1, 10)
        monthStem == At(GAN, monthStemIdx)
        monthBranch == At(ZHI, MonthBranchIdx(monthNum))
    IN  [year |-> currentYear,
         month |-> monthNum - 1,
         stem |-> monthStem,
         branch |-> monthBranch,
         stemKorean |-> getKoreanChar(monthStem),
         branchKorean |-> getKoreanChar(monthBranch)]

\* The entry pushed for yearOffset (0..59) and monthNum (1..12).
WolunEntry(birthYear, yearOffset, monthNum) ==
    LET currentYear == birthYear + yearOffset
        yearGanZhiIdx == YearGanZhiIdx(currentYear)
        yearGan == At(GAN, JsRem(yearGanZhiIdx, 10))
        yearGanIdx == IndexOf(GAN, yearGan)
        monthStemStartIdx == At(monthStemStart, yearGanIdx)
        monthStemIdx == JsRem(monthStemStartIdx + monthNum - 1, 10)
        monthStem == At(GAN, monthStemIdx)
        monthBranch == At(ZHI, MonthBranchIdx(monthNum))
    IN  [year |-> currentYear,
         month |-> monthNum,
         stem |-> monthStem,
         branch |-> monthBranch,
         stemKorean |-> getKoreanChar(monthStem),
         branchKorean |-> getKoreanChar(monthBranch)]

\* The two nested loops push the entries year by year, month by month.
calculateWolun(birthYear) ==
    [n \in 1..(NumWolunYears * NumWolunMonths) |->
        WolunEntry(birthYear, (n - 1) \div NumWolunMonths, ((n - 1) % NumWolunMonths) + 1)]

WolunInit ==
    \E y \in BirthYears : wolunCall = [pc |-> "call", birthYear |-> y, ret |-> <<>>]

CalculateWolun ==
    /\ wolunCall.pc = "call"
    /\ wolunCall' = [wolunCall EXCEPT !.pc = "done",
                                      !.ret = calculateWolun(wolunCall.birthYear)]
    /\ UNCHANGED <<cycle, tenGod, tally, pillar, daeunCall, saeunCall, analysis, charTally, consult>>

---------------------------------------------------------------------------
(* 8. analyzeSaju: the local computation up to the request, the suspension  *)
(* at await, and the continuation on the service's answer.  The eight       *)
(* symbols are the calendar converter's; ai is the module's client, null    *)
(* until setApiKey has run.                                                 *)

\* allChars.forEach over the first k symbols.
RECURSIVE CountAll(_, _)
CountAll(allChars, k) ==
    IF k = 0 THEN ZeroCounts ELSE CountChar(CountAll(allChars, k - 1), allChars[k])

allCharsOf(in) ==
    <<in.yearStem, in.yearBranch, in.monthStem, in.monthBranch,
      in.dayStem, in.dayBranch, in.hourStem, in.hourBranch>>

\* What response.text can be: absent, empty, not JSON, and JSON for null, for
\* a number and for an object of the requested schema.
ResponseTexts == {Undefined, "", "{", "null", "1", "{...}"}

\* JSON.parse: ok is FALSE where it throws a SyntaxError.
JSONparse(text) ==
    CASE text = "null" -> [ok |-> TRUE, value |-> "null"]
      [] text = "1" -> [ok |-> TRUE, value |-> "number"]
      [] text = "{...}" -> [ok |-> TRUE, value |-> "object"]
      [] OTHER -> [ok |-> FALSE, value |-> ""]

\* aiResult.<field> for a parsed value other than null.
FieldOf(value) == IF value = "object" THEN "text" ELSE Undefined

\* The catch block with the partial outputs handed back instead of the error.
Catch_returnPartial(a, error) ==
    [a EXCEPT !.pc = "returned",
              !.result = [NoResult EXCEPT !.yearPillar = a.local.yearPillar,
                                          !.monthPillar = a.local.monthPillar,
                                          !.dayPillar = a.local.dayPillar,
                                          !.hourPillar = a.local.hourPillar,
                                          !.elementCounts = a.local.counts]]

\* catch (error) { console.error(error); throw error; }
Catch(a, error) == [a EXCEPT !.pc = "thrown", !.error = error]

\* The return value with the starting age read from the service's answer.
ResultOf_aiStartAge(a, value) ==
    LET in == a.input
        d == calculateDaeun(in.birthYear, in.birthMonth, in.birthDay, in.gender,
                            in.monthStem, in.monthBranch, in.yearStem)
    IN  [yearPillar |-> a.local.yearPillar,
         monthPillar |-> a.local.monthPillar,
         dayPillar |-> a.local.dayPillar,
         hourPillar |-> a.local.hourPillar,
         elementCounts |-> a.local.counts,
         missingElements |-> FieldOf(value),
         dayMasterReading |-> FieldOf(value),
         chaeumAdvice |-> FieldOf(value),
         healthAnalysis |-> FieldOf(value),
         fortune2026 |-> FieldOf(value),
         luckyTable |-> FieldOf(value),
         daeun |-> d.daeun,
         saeun |-> calculateSaeun(in.birthYear),
         wolun |-> calculateWolun(in.birthYear),
         birthYear |-> in.birthYear,
         birthMonth |-> in.birthMonth,
         daeunStartAge |-> IF value = "object" THEN d.startAge ELSE 0]

\* The value of the return statement.
ResultOf(a, value) ==
    LET in == a.input
        d == calculateDaeun(in.birthYear, in.birthMonth, in.birthDay, in.gender,
                            in.monthStem, in.monthBranch, in.yearStem)
    IN  [yearPillar |-> a.local.yearPillar,
         monthPillar |-> a.local.monthPillar,
         dayPillar |-> a.local.dayPillar,
         hourPillar |-> a.local.hourPillar,
         elementCounts |-> a.local.counts,
         missingElements |-> FieldOf(value),
         dayMasterReading |-> FieldOf(value),
         chaeumAdvice |-> FieldOf(value),
         healthAnalysis |-> FieldOf(value),
         fortune2026 |-> FieldOf(value),
         luckyTable |-> FieldOf(value),
         daeun |-> d.daeun,
         saeun |-> calculateSaeun(in.birthYear),
         wolun |-> calculateWolun(in.birthYear),
         birthYear |-> in.birthYear,
         birthMonth |-> in.birthMonth,
         daeunStartAge |-> d.startAge]

SampleDayStems == {"jia", "geng"}

SampleDays == {1, 15, 31}

\* What the call receives and what the converter reads off for it.  A birth in
\* May lies after the start of the solar year, so the year pillar is the
\* year's own pair; the other pillars are sample pairs of the cycle.
AnalyzeInputs ==
    {[birthYear |-> y, birthMonth |-> m, birthDay |-> d, gender |-> g,
      yearStem |-> getGanZhiFromIndex(YearGanZhiIdx(y)).stem,
      yearBranch |-> getGanZhiFromIndex(YearGanZhiIdx(y)).branch,
      monthStem |-> ms, monthBranch |-> mb,
      dayStem |-> ds, dayBranch |-> "zi",
      hourStem |-> "jia", hourBranch |-> "xu"] :
        y \in (AnchorYear - 1)..(AnchorYear + 1), m \in ReferenceMonths,
        d \in SampleDays, g \in Genders, ms \in ReferenceMonthStems,
        mb \in ReferenceMonthBranches, ds \in SampleDayStems}

\* The keys setApiKey is called with.
ApiKeys == {"key1", "key2"}

\* ai is null, or the client made from the stored key when the module loaded.
AnalyzeInit ==
    \E in \in AnalyzeInputs, key \in ApiKeys \cup {""} :
        analysis = [AnalysisIdle EXCEPT !.pc = "start", !.input = in,
                                        !.aiSet = (key # ""), !.apiKey = key]

\* Calls of setApiKey during one analysis.
MaxKeyChanges == 2

\* setApiKey(apiKey), called by the page while an analysis is under way.
SetApiKey ==
    /\ analysis.pc \in {"start", "awaiting"}
    /\ analysis.keyChanges < MaxKeyChanges
    /\ \E key \in ApiKeys :
          analysis' = [analysis EXCEPT !.aiSet = TRUE, !.apiKey = key,
                                       !.keyChanges = @ + 1]
    /\ UNCHANGED <<cycle, tenGod, tally, pillar, daeunCall, saeunCall, wolunCall, charTally, consult>>

\* From entry to the await: the counts and pillars, then the request; with
\* ai null the member access throws inside the try.
AnalyzeSaju ==
    /\ analysis.pc = "start"
    /\ LET in == analysis.input
           a == [analysis EXCEPT
                   !.local = [counts |-> CountAll(allCharsOf(in), NumChars),
                              yearPillar |-> createPillar(in.dayStem, in.yearStem, in.yearBranch),
                              monthPillar |-> createPillar(in.dayStem, in.monthStem, in.monthBranch),
                              dayPillar |-> createPillar(in.dayStem, in.dayStem, in.dayBranch),
                              hourPillar |-> createPillar(in.dayStem, in.hourStem, in.hourBranch)]]
       IN  analysis' = IF a.aiSet
                       THEN [a EXCEPT !.pc = "awaiting", !.calls = @ + 1]
                       ELSE Catch(a, "TypeError")
    /\ UNCHANGED <<cycle, tenGod, tally, pillar, daeunCall, saeunCall, wolunCall, charTally, consult>>

\* The request's promise rejects.
GenerateContentRejects ==
    /\ analysis.pc = "awaiting"
    /\ analysis' = Catch(analysis, "ServiceError")
    /\ UNCHANGED <<cycle, tenGod, tally, pillar, daeunCall, saeunCall, wolunCall, charTally, consult>>

\* The request's promise resolves with a response.
GenerateContentResolves ==
    /\ analysis.pc = "awaiting"
    /\ \E text \in ResponseTexts :
          LET a == [analysis EXCEPT !.text = text]
              aiResult == JSONparse(text)
          IN  analysis' =
                IF text \in {Undefined, ""} THEN Catch(a, "No response")
                ELSE IF ~aiResult.ok THEN Catch(a, "SyntaxError")
                ELSE IF aiResult.value = "null" THEN Catch(a, "TypeError")
                ELSE [a EXCEPT !.pc = "returned", !.result = ResultOf(a, aiResult.value)]
    /\ UNCHANGED <<cycle, tenGod, tally, pillar, daeunCall, saeunCall, wolunCall, charTally, consult>>

---------------------------------------------------------------------------
(* consultSaju: the history handed to the chat session.  chatHistory is the  *)
(* caller's array; given is its content when the call was made.              *)

\* Turns of the caller's history: a role and a text.
Roles == {"user", "model"}
Turns == [role : Roles, text : {"q", "a"}]

\* The longest history a call is made with.
MaxHistory == 3

Histories == UNION {[1..n -> Turns] : n \in 0..MaxHistory}

\* { role: 'user', parts: [{ text: ... }] }, the turn put in front.
SyntheticTurn == [role |-> "user", text |-> "tell me my result"]

\* The adjustment made on the caller's array itself instead of on a copy.
AdjustHistory_noCopy(chatHistory) ==
    LET adjustedHistory ==
            IF Len(chatHistory) > 0 /\ chatHistory[1].role = "model"
            THEN <<SyntheticTurn>> \o chatHistory
            ELSE chatHistory
    IN  [chatHistory |-> adjustedHistory, adjustedHistory |-> adjustedHistory]

\* const adjustedHistory = [...chatHistory]; if (...) adjustedHistory.unshift(...)
\* The two arrays after it.
AdjustHistory(chatHistory) ==
    LET copy == chatHistory
        adjustedHistory ==
            IF Len(copy) > 0 /\ copy[1].role = "model"
            THEN <<SyntheticTurn>> \o copy
            ELSE copy
    IN  [chatHistory |-> chatHistory, adjustedHistory |-> adjustedHistory]

\* What result.text can be.
AnswerTexts == {Undefined, "", "answer"}

ConsultInit ==
    \E h \in Histories, ok \in BOOLEAN, set \in BOOLEAN :
        consult = [ConsultIdle EXCEPT !.pc = "call", !.contextOk = ok, !.aiSet = set,
                                      !.given = h, !.chatHistory = h]

\* From entry to the await.  sajuContext.missingElements.map throws when the
\* analysis result has no such list; with ai null the member access throws
\* inside the try, before a chat is created.
ConsultSaju ==
    /\ consult.pc = "call"
    /\ consult' =
          IF ~consult.contextOk
          THEN [consult EXCEPT !.pc = "thrown", !.error = "TypeError"]
          ELSE LET arrays == AdjustHistory(consult.chatHistory)
                   c == [consult EXCEPT !.chatHistory = arrays.chatHistory]
               IN  IF ~consult.aiSet
                   THEN [c EXCEPT !.pc = "thrown", !.error = "TypeError"]
                   ELSE [c EXCEPT !.pc = "awaiting", !.created = TRUE,
                                  !.history = arrays.adjustedHistory]
    /\ UNCHANGED <<cycle, tenGod, tally, pillar, daeunCall, saeunCall, wolunCall, analysis, charTally>>

\* chat.sendMessage rejects: the catch block logs and rethrows.
SendMessageRejects ==
    /\ consult.pc = "awaiting"
    /\ consult' = [consult EXCEPT !.pc = "thrown", !.error = "ServiceError"]
    /\ UNCHANGED <<cycle, tenGod, tally, pillar, daeunCall, saeunCall, wolunCall, analysis, charTally>>

\* chat.sendMessage resolves: return result.text || <the fallback sentence>.
SendMessageResolves ==
    /\ consult.pc = "awaiting"
    /\ \E text \in AnswerTexts :
          consult' = [consult EXCEPT
                        !.pc = "returned",
                        !.answer = IF text \in {Undefined, ""} THEN "no answer" ELSE text]
    /\ UNCHANGED <<cycle, tenGod, tally, pillar, daeunCall, saeunCall, wolunCall, analysis, charTally>>

CycleNext == GetGanZhiFromIndex \/ GetGanZhiIndex

InitCycle ==
    /\ CycleInit /\ tenGod = TenGodIdle /\ tally = TallyIdle
    /\ pillar = PillarIdle /\ daeunCall = DaeunIdle /\ saeunCall = SaeunIdle /\ wolunCall = WolunIdle /\ analysis = AnalysisIdle /\ charTally = CharTallyIdle /\ consult = ConsultIdle

SpecCycle == InitCycle /\ [][CycleNext]_vars

InitTenGod ==
    /\ TenGodInit /\ cycle = CycleIdle /\ tally = TallyIdle
    /\ pillar = PillarIdle /\ daeunCall = DaeunIdle /\ saeunCall = SaeunIdle /\ wolunCall = WolunIdle /\ analysis = AnalysisIdle /\ charTally = CharTallyIdle /\ consult = ConsultIdle

SpecTenGod == InitTenGod /\ [][GetTenGod]_vars

TallyNext == TallyStep \/ TallyDone

InitTally ==
    /\ TallyInit /\ cycle = CycleIdle /\ tenGod = TenGodIdle
    /\ pillar = PillarIdle /\ daeunCall = DaeunIdle /\ saeunCall = SaeunIdle /\ wolunCall = WolunIdle /\ analysis = AnalysisIdle /\ charTally = CharTallyIdle /\ consult = ConsultIdle

SpecTally == InitTally /\ [][TallyNext]_vars

InitPillar ==
    /\ PillarInit /\ cycle = CycleIdle /\ tenGod = TenGodIdle
    /\ tally = TallyIdle /\ daeunCall = DaeunIdle /\ saeunCall = SaeunIdle /\ wolunCall = WolunIdle /\ analysis = AnalysisIdle /\ charTally = CharTallyIdle /\ consult = ConsultIdle

SpecPillar == InitPillar /\ [][CreatePillar]_vars

InitDaeun ==
    /\ DaeunInit /\ cycle = CycleIdle /\ tenGod = TenGodIdle
    /\ tally = TallyIdle /\ pillar = PillarIdle /\ saeunCall = SaeunIdle /\ wolunCall = WolunIdle /\ analysis = AnalysisIdle /\ charTally = CharTallyIdle /\ consult = ConsultIdle

SpecDaeun == InitDaeun /\ [][CalculateDaeun]_vars

InitSaeun ==
    /\ SaeunInit /\ cycle = CycleIdle /\ tenGod = TenGodIdle /\ tally = TallyIdle
    /\ pillar = PillarIdle /\ daeunCall = DaeunIdle /\ wolunCall = WolunIdle /\ analysis = AnalysisIdle /\ charTally = CharTallyIdle /\ consult = ConsultIdle

SpecSaeun == InitSaeun /\ [][CalculateSaeun]_vars

InitWolun ==
    /\ WolunInit /\ cycle = CycleIdle /\ tenGod = TenGodIdle /\ tally = TallyIdle
    /\ pillar = PillarIdle /\ daeunCall = DaeunIdle /\ saeunCall = SaeunIdle /\ analysis = AnalysisIdle /\ charTally = CharTallyIdle /\ consult = ConsultIdle

SpecWolun == InitWolun /\ [][CalculateWolun]_vars

AnalyzeNext == SetApiKey \/ AnalyzeSaju \/ GenerateContentRejects \/ GenerateContentResolves

InitAnalyze ==
    /\ AnalyzeInit /\ cycle = CycleIdle /\ tenGod = TenGodIdle /\ tally = TallyIdle
    /\ pillar = PillarIdle /\ daeunCall = DaeunIdle /\ saeunCall = SaeunIdle
    /\ wolunCall = WolunIdle /\ charTally = CharTallyIdle /\ consult = ConsultIdle

SpecAnalyze == InitAnalyze /\ [][AnalyzeNext]_vars

CharTallyNext == CharTallyStep \/ CharTallyDone

InitCharTally ==
    /\ CharTallyInit /\ cycle = CycleIdle /\ tenGod = TenGodIdle /\ tally = TallyIdle
    /\ pillar = PillarIdle /\ daeunCall = DaeunIdle /\ saeunCall = SaeunIdle
    /\ wolunCall = WolunIdle /\ analysis = AnalysisIdle /\ consult = ConsultIdle

SpecCharTally == InitCharTally /\ [][CharTallyNext]_vars

ConsultNext == ConsultSaju \/ SendMessageRejects \/ SendMessageResolves

InitConsult ==
    /\ ConsultInit /\ cycle = CycleIdle /\ tenGod = TenGodIdle /\ tally = TallyIdle
    /\ pillar = PillarIdle /\ daeunCall = DaeunIdle /\ saeunCall = SaeunIdle
    /\ wolunCall = WolunIdle /\ analysis = AnalysisIdle /\ charTally = CharTallyIdle

SpecConsult == InitConsult /\ [][ConsultNext]_vars

---------------------------------------------------------------------------
(* Properties *)

\* The pair at canonical position q in 0..59, read off the two symbol lists.
PairAtPosition(q) == [stem |-> GAN[(q % 10) + 1], branch |-> ZHI[(q % 12) + 1]]

\* The ordinal (0-based) of a stem or of a branch.
StemOrdinal(stem) == CHOOSE i \in 0..9 : GAN[i + 1] = stem
BranchOrdinal(branch) == CHOOSE i \in 0..11 : ZHI[i + 1] = branch

\* The (stem, branch) pairs whose ordinals have the same parity.
ValidPairs ==
    {g \in [stem : Stems, branch : Branches] :
        StemOrdinal(g.stem) % 2 = BranchOrdinal(g.branch) % 2}

\* C1: for every position p in 0..59, getGanZhiIndex applied to the pair that
\* getGanZhiFromIndex(p) returned gives p back.
C1_PositionRoundTrip ==
    (cycle.origin = "index" /\ cycle.p \in 0..59 /\ cycle.steps = 2)
        => cycle.index = cycle.p

C1_Witness ==
    /\ cycle.origin = "index" /\ cycle.p = 59 /\ cycle.steps = 2
    /\ cycle.pair = [stem |-> "gui", branch |-> "hai"] /\ cycle.index = 59

\* C2: there are exactly 60 same-parity pairs; for each of them
\* getGanZhiFromIndex(getGanZhiIndex(stem, branch)) is that pair; and every pair
\* getGanZhiFromIndex returns is a same-parity pair.
C2_PairRoundTrip ==
    /\ Cardinality(ValidPairs) = 60
    /\ (cycle.origin = "pair" /\ cycle.given \in ValidPairs /\ cycle.steps = 2)
           => cycle.pair = cycle.given
    /\ (cycle.last = "pair" /\ cycle.steps >= 1) => cycle.pair \in ValidPairs

C2_Witness ==
    /\ cycle.origin = "pair" /\ cycle.given = [stem |-> "gui", branch |-> "hai"]
    /\ cycle.steps = 2 /\ cycle.index = 59 /\ cycle.pair = cycle.given

\* C3: for every integer p, negative ones included, getGanZhiFromIndex(p)
\* returns the pair at position p mod 60 (the mathematical modulus, which is
\* ((p rem 60) + 60) rem 60), and getGanZhiFromIndex(p + 60) returns the same pair.
C3_CycleClosure ==
    (cycle.origin = "index" /\ cycle.steps >= 1)
        => /\ cycle.pair = PairAtPosition(cycle.p % 60)
           /\ getGanZhiFromIndex(cycle.p + 60) = cycle.pair

C3_Witness ==
    /\ cycle.origin = "index" /\ cycle.p = -61 /\ cycle.steps = 1
    /\ cycle.pair = [stem |-> "gui", branch |-> "hai"]

\* C4: when the eight pillar symbols are four stems and four branches of the
\* defined sets, the five element counts sum to exactly 8.
C4_TallyTotal ==
    tally.pc = "done"
        => tally.counts.Wood + tally.counts.Fire + tally.counts.Earth
           + tally.counts.Metal + tally.counts.Water = 8

C4_Witness == tally.pc = "done" /\ tally.counts.Earth = 8

\* C5: for each of the ten stems d, getTenGod(d, d) is the Companion label
\* (bigyeon) and never the Day Master label (ilwon).
C5_SameStemIsCompanion ==
    (tenGod.pc = "done" /\ tenGod.dayStem \in Stems /\ tenGod.target = tenGod.dayStem)
        => (tenGod.ret = "bigyeon" /\ tenGod.ret # "ilwon")

C5_Witness ==
    /\ tenGod.pc = "done" /\ tenGod.dayStem = "gui" /\ tenGod.target = "gui"
    /\ tenGod.ret = "bigyeon"

\* C6: the Day Master label (ilwon) is given only to the Day pillar's own stem
\* slot: a Year, Month or Hour pillar whose stem is identical to the Day Master
\* stem is labelled Companion (bigyeon), not ilwon.
C6_SelfLabelOnlyOnDayPillar ==
    pillar.pc = "done"
        => /\ (pillar.slot # "day" /\ pillar.stem = pillar.dayStem)
                  => pillar.ret.stemTenGod = "bigyeon"
           /\ pillar.ret.stemTenGod = "ilwon" => pillar.slot = "day"

\* The stems of even ordinal (Yang).
YangStems == {"jia", "bing", "wu4", "geng", "ren"}

\* Entry i of a finished call as a (stem, branch) pair.
EntryPair(i) == [stem |-> daeunCall.ret.daeun[i + 1].stem,
                 branch |-> daeunCall.ret.daeun[i + 1].branch]

\* The entries walk the cycle forward (step = 1) or backward (step = -1) from
\* position monthPosition.
Walks(monthPosition, step) ==
    \A i \in 0..12 : EntryPair(i) = PairAtPosition((monthPosition + step * (i + 1)) % 60)

\* C7: calculateDaeun walks the cycle forward exactly when the Year Stem is of
\* even ordinal and the gender male, or of odd ordinal and the gender female,
\* and backward otherwise; jia with male is forward, jia with female backward,
\* yi with male backward.
C7_DaeunDirection ==
    daeunCall.pc = "done"
        => LET a == daeunCall.args
               forward == \/ (a.yearStem \in YangStems /\ a.gender = "male")
                          \/ (a.yearStem \notin YangStems /\ a.gender = "female")
               mp == getGanZhiIndex(a.monthStem, a.monthBranch)
               walksForward == Walks(mp, 1)
               walksBackward == Walks(mp, -1)
           IN  /\ forward => (walksForward /\ ~walksBackward)
               /\ ~forward => (walksBackward /\ ~walksForward)
               /\ (a.yearStem = "jia" /\ a.gender = "male") => walksForward
               /\ (a.yearStem = "jia" /\ a.gender = "female") => walksBackward
               /\ (a.yearStem = "yi" /\ a.gender = "male") => walksBackward

C7_Witness ==
    /\ daeunCall.pc = "done"
    /\ daeunCall.args.yearStem = "yi" /\ daeunCall.args.gender = "female"
    /\ daeunCall.args.monthStem = "bing" /\ daeunCall.args.monthBranch = "yin"
    /\ EntryPair(0) = [stem |-> "ding", branch |-> "mao"]

\* C8: there are 13 entries, and entry i (0..12) has the pair at cycle position
\* monthPosition + i + 1 when the direction is forward and monthPosition - i - 1
\* when backward, normalised into 0..59.
C8_DaeunEntryPairs ==
    daeunCall.pc = "done"
        => LET a == daeunCall.args
               mp == getGanZhiIndex(a.monthStem, a.monthBranch)
               forward == IsForward(a.yearStem, a.gender)
           IN  /\ Len(daeunCall.ret.daeun) = 13
               /\ \A i \in 0..12 :
                     EntryPair(i) = PairAtPosition(
                         (IF forward THEN mp + i + 1 ELSE mp - i - 1) % 60)

C8_Witness ==
    /\ daeunCall.pc = "done"
    /\ daeunCall.args.yearStem = "jia" /\ daeunCall.args.gender = "female"
    /\ daeunCall.args.monthStem = "jia" /\ daeunCall.args.monthBranch = "zi"
    /\ EntryPair(0) = [stem |-> "gui", branch |-> "hai"]
    /\ EntryPair(12) = [stem |-> "xin", branch |-> "hai"]

\* C9: entry 0 starts at startAge and entry i >= 1 at floor(startAge) + 10 i;
\* entry i ends at floor(startAge) + 10 (i + 1) - 1; so each entry ends one
\* year before the next one starts, and only entry 0 can start at a fractional
\* age.  (Ages in tenths.)
C9_DaeunAges ==
    daeunCall.pc = "done"
        => LET e == daeunCall.ret.daeun
               startAge == daeunCall.ret.startAge
               floorAge == CHOOSE f \in 0..20 : 10 * f <= startAge /\ startAge < 10 * f + 10
           IN  /\ e[1].startAge = startAge
               /\ \A i \in 1..12 : e[i + 1].startAge = 10 * (floorAge + 10 * i)
               /\ \A i \in 0..12 : e[i + 1].endAge = 10 * (floorAge + 10 * (i + 1) - 1)
               /\ \A i \in 0..11 : e[i + 1].endAge = e[i + 2].startAge - 10
               /\ \A i \in 1..12 : e[i + 1].startAge % 10 = 0

C9_Witness ==
    /\ daeunCall.pc = "done"
    /\ daeunCall.args.birthMonth = 5 /\ daeunCall.args.birthDay = 15
    /\ daeunCall.ret.startAge = 53
    /\ daeunCall.ret.daeun[1].startAge = 53 /\ daeunCall.ret.daeun[1].endAge = 140
    /\ daeunCall.ret.daeun[2].startAge = 150

\* C10: the starting age is round(d / 3 * 10) / 10 with
\* d = |round(L / 2 - birthDay + 15)| and L from the fixed non-leap table; it is
\* a function of birth month and day alone, the same in a leap year as in any
\* other.  (r is the integer nearest to L / 2 - birthDay + 15, a half rounding
\* up; t, in tenths, the integer nearest to 10 d / 3.)
C10_StartAgeFormula ==
    daeunCall.pc = "done"
        => LET a == daeunCall.args
               L == <<31, 28, 31, 30, 31, 30, 31, 31, 30, 31, 30, 31>>[a.birthMonth]
               h == L - 2 * a.birthDay + 30
               r == CHOOSE x \in -40..40 : 2 * x - 1 <= h /\ h < 2 * x + 1
               d == IF r < 0 THEN -r ELSE r
               t == CHOOSE x \in 0..200 : 3 * x - 10 * d \in -1..1
           IN  daeunCall.ret.startAge = t

C10_Witness ==
    /\ daeunCall.pc = "done"
    /\ daeunCall.args.birthYear = 1984
    /\ daeunCall.args.birthMonth = 2 /\ daeunCall.args.birthDay = 29
    /\ daeunCall.ret.startAge = 0

\* C11: calendar year 1984 is cycle position 0: every Year Entry of
\* calculateSaeun whose year is 1984 has the pair (jia, zi).
C11_SaeunAnchor ==
    saeunCall.pc = "done"
        => \A a \in 1..Len(saeunCall.ret) :
              saeunCall.ret[a].year = 1984
                  => (saeunCall.ret[a].stem = "jia" /\ saeunCall.ret[a].branch = "zi")

C11_Witness ==
    /\ saeunCall.pc = "done" /\ saeunCall.birthYear = 1950
    /\ saeunCall.ret[35].year = 1984
    /\ saeunCall.ret[35].stem = "jia" /\ saeunCall.ret[35].branch = "zi"

\* C12: for any birth year, before or after 1984, calculateSaeun returns
\* exactly 110 entries in chronological order; the a-th has age a, year
\* birthYear + a - 1 and the pair at position (year - 1984) mod 60.
C12_SaeunEntries ==
    saeunCall.pc = "done"
        => LET e == saeunCall.ret
           IN  /\ Len(e) = 110
               /\ \A a \in 1..110 :
                     /\ e[a].age = a
                     /\ e[a].year = saeunCall.birthYear + a - 1
                     /\ [stem |-> e[a].stem, branch |-> e[a].branch]
                            = PairAtPosition((e[a].year - 1984) % 60)
               /\ \A a \in 1..109 : e[a].year < e[a + 1].year

C12_Witness ==
    /\ saeunCall.pc = "done" /\ saeunCall.birthYear = 1900
    /\ saeunCall.ret[1].stem = "geng" /\ saeunCall.ret[1].branch = "zi"
    /\ saeunCall.ret[110].year = 2009
    /\ saeunCall.ret[110].stem = "ji" /\ saeunCall.ret[110].branch = "chou"

\* C13: for any birth year Y, calculateWolun returns exactly 720 entries
\* covering the years Y..Y+59, 12 per year, ordered by year and within a year
\* by month 1..12.
C13_WolunSpan ==
    wolunCall.pc = "done"
        => /\ Len(wolunCall.ret) = 720
           /\ \A y \in 0..59 : \A m \in 1..12 :
                 /\ wolunCall.ret[12 * y + m].year = wolunCall.birthYear + y
                 /\ wolunCall.ret[12 * y + m].month = m

C13_Witness ==
    /\ wolunCall.pc = "done" /\ wolunCall.birthYear = 1990
    /\ wolunCall.ret[1].year = 1990 /\ wolunCall.ret[1].month = 1
    /\ wolunCall.ret[720].year = 2049 /\ wolunCall.ret[720].month = 12

\* The Five-Tigers start index of a year stem ordinal.
FiveTigers(s) ==
    CASE s \in {0, 5} -> 2
      [] s \in {1, 6} -> 4
      [] s \in {2, 7} -> 6
      [] s \in {3, 8} -> 8
      [] s \in {4, 9} -> 0

\* C14: every Month Entry for month m has stem index (t + m - 1) mod 10 and
\* branch index (m + 1) mod 12, t being the Five-Tigers start index of the
\* stem ordinal of the entry's year, ((year - 1984) mod 60) mod 10.
C14_WolunPairs ==
    wolunCall.pc = "done"
        => \A n \in 1..Len(wolunCall.ret) :
              LET e == wolunCall.ret[n]
                  t == FiveTigers(((e.year - 1984) % 60) % 10)
              IN  /\ e.stem = GAN[((t + e.month - 1) % 10) + 1]
                  /\ e.branch = ZHI[((e.month + 1) % 12) + 1]

C14_Witness ==
    /\ wolunCall.pc = "done" /\ wolunCall.birthYear = 1984
    /\ wolunCall.ret[1].stem = "bing" /\ wolunCall.ret[1].branch = "yin"
    /\ wolunCall.ret[12].stem = "ding" /\ wolunCall.ret[12].branch = "chou"

\* The ten labels, by step k along the generation/control cycle; the first
\* of a pair is for equal polarity, the second for different polarity.
LabelPairs ==
    << <<"bigyeon", "geopjae">>, <<"siksin", "sanggwan">>, <<"pyeonjae", "jeongjae">>,
       <<"pyeongwan", "jeonggwan">>, <<"pyeonin", "jeongin">> >>

DerivedLabel(d, t) ==
    LET k == ((t \div 2) - (d \div 2)) % 5
    IN  LabelPairs[k + 1][IF d % 2 = t % 2 THEN 1 ELSE 2]

\* C15: for Day Master ordinal d and target ordinal t in 0..9,
\* TEN_GODS_MAP[d][t] is the label derived from the five-element cycle and
\* polarity, and it is what getTenGod answers for the two stems.
C15_TableIsDerived ==
    (tenGod.pc = "done" /\ tenGod.dayStem \in Stems /\ tenGod.target \in Stems)
        => LET d == StemOrdinal(tenGod.dayStem)
               t == StemOrdinal(tenGod.target)
           IN  /\ TEN_GODS_MAP[d + 1][t + 1] = DerivedLabel(d, t)
               /\ tenGod.ret = DerivedLabel(d, t)

C15_Witness ==
    /\ tenGod.pc = "done" /\ tenGod.dayStem = "bing" /\ tenGod.target = "xin"
    /\ tenGod.ret = "jeongjae"

\* C16: for a Day Master stem d and any of the 12 branches b, getTenGod(d, b)
\* is TEN_GODS_MAP[ordinal(d)][ordinal(mainQi(b))]; mainQi is defined for all
\* 12 branches and always yields a stem.
C16_BranchUsesMainQi ==
    /\ DOMAIN BRANCH_MAIN_QI = Branches
    /\ \A b \in Branches : BRANCH_MAIN_QI[b] \in Stems
    /\ (tenGod.pc = "done" /\ tenGod.dayStem \in Stems /\ tenGod.target \in Branches)
          => tenGod.ret = TEN_GODS_MAP[StemOrdinal(tenGod.dayStem) + 1]
                                      [StemOrdinal(BRANCH_MAIN_QI[tenGod.target]) + 1]

C16_Witness ==
    /\ tenGod.pc = "done" /\ tenGod.dayStem = "jia" /\ tenGod.target = "zi"
    /\ tenGod.ret = "jeongin"

\* C17: the Decade Entries are in chronological life order for both
\* directions and every starting age: each starting age is strictly less
\* than the next, each starting year not later than the next.
C17_DaeunChronological ==
    daeunCall.pc = "done"
        => LET e == daeunCall.ret.daeun
           IN  \A i \in 1..(Len(e) - 1) :
                  /\ e[i].startAge < e[i + 1].startAge
                  /\ e[i].startYear <= e[i + 1].startYear

C17_Witness ==
    /\ daeunCall.pc = "done"
    /\ ~IsForward(daeunCall.args.yearStem, daeunCall.args.gender)
    /\ Len(daeunCall.ret.daeun) = 13
    /\ daeunCall.ret.daeun[1].startAge > 0
    /\ daeunCall.ret.daeun[1].startYear < daeunCall.ret.daeun[13].startYear

\* The element of a stem by ordinal: two stems per element, in the order
\* Wood, Fire, Earth, Metal, Water.
ElementNames == <<"Wood", "Fire", "Earth", "Metal", "Water">>

\* C18: a Pillar built by createPillar for a stem of the stem set has that
\* stem's element, and its color is COLOR_MAP[element].
C18_PillarElementColor ==
    (pillar.pc = "done" /\ pillar.stem \in Stems)
        => /\ pillar.ret.element = ElementNames[(StemOrdinal(pillar.stem) \div 2) + 1]
           /\ pillar.ret.element = ELEMENT_MAP[pillar.stem]
           /\ pillar.ret.color = COLOR_MAP[pillar.ret.element]

C18_Witness ==
    /\ pillar.pc = "done" /\ pillar.stem = "geng" /\ pillar.branch = "yin"
    /\ pillar.ret.element = "Metal" /\ pillar.ret.color = COLOR_MAP["Metal"]

\* C20: getTenGod returns the empty label whenever the Day Master is not a
\* stem or the target, after the main-qi substitution, is not a stem.
C20_EmptyUnlessBothResolve ==
    tenGod.pc = "done"
        => LET targetStem == IF tenGod.target \in Branches
                             THEN BRANCH_MAIN_QI[tenGod.target] ELSE tenGod.target
           IN  (tenGod.dayStem \notin Stems \/ targetStem \notin Stems)
                  => tenGod.ret = ""

\* The outputs of section 6 for the call's input, all present.
FullResult(a) ==
    LET r == a.result
        in == a.input
    IN  /\ r.yearPillar.stem = in.yearStem /\ r.yearPillar.branch = in.yearBranch
        /\ r.monthPillar.stem = in.monthStem /\ r.monthPillar.branch = in.monthBranch
        /\ r.dayPillar.stem = in.dayStem /\ r.dayPillar.branch = in.dayBranch
        /\ r.hourPillar.stem = in.hourStem /\ r.hourPillar.branch = in.hourBranch
        /\ \A p \in {r.yearPillar, r.monthPillar, r.dayPillar, r.hourPillar} :
              p.stemTenGod # "" /\ p.branchTenGod # "" /\ p.element # "" /\ p.color # ""
        /\ r.elementCounts.Wood + r.elementCounts.Fire + r.elementCounts.Earth
              + r.elementCounts.Metal + r.elementCounts.Water = 8
        /\ Len(r.daeun) = 13 /\ Len(r.saeun) = 110 /\ Len(r.wolun) = 720
        /\ r.daeun[1].startAge = r.daeunStartAge
        /\ r.daeunStartAge = StartAge(DaysToJeolgi(in.birthMonth, in.birthDay))
        /\ r.saeun[1].year = in.birthYear /\ r.wolun[1].year = in.birthYear

\* C19: analyzeSaju calls the generative service at most once, and either
\* returns a result with all four pillars, the element counts, 13 Decade
\* Entries, 110 Year Entries, 720 Month Entries and the Decade starting age,
\* or (service failure, empty response text, unparseable JSON) throws
\* without any result.
C19_AllOrNothing ==
    /\ analysis.calls <= 1
    /\ analysis.pc \in {"idle", "start", "awaiting", "thrown"} => analysis.result = NoResult
    /\ analysis.pc = "returned"
          => /\ analysis.calls = 1 /\ analysis.error = ""
             /\ analysis.text \notin {Undefined, "", "{"}
             /\ FullResult(analysis)
    /\ analysis.pc = "thrown" => analysis.error # ""
    /\ (analysis.pc \in {"returned", "thrown"} /\ analysis.calls = 1
             /\ analysis.text \in {Undefined, "", "{"})
          => analysis.pc = "thrown"

C19_Witness ==
    /\ analysis.pc = "returned" /\ analysis.calls = 1 /\ analysis.text = "{...}"
    /\ analysis.input.birthDay = 15
    /\ Len(analysis.result.wolun) = 720 /\ analysis.result.daeunStartAge > 0

\* C21: getGanZhiIndex returns position 0 for every (stem, branch) input
\* that is not one of the 60 valid pairs (opposite parity, or a symbol outside
\* the sets), and never a position outside 0..59.
C21_IndexFallsBackToZero ==
    (cycle.origin = "pair" /\ cycle.steps >= 1)
        => LET first == getGanZhiIndex(cycle.given.stem, cycle.given.branch)
           IN  /\ cycle.index \in 0..59
               /\ first \in 0..59
               /\ cycle.given \notin ValidPairs => first = 0
               /\ (cycle.steps = 1 /\ cycle.given \notin ValidPairs) => cycle.index = 0

C21_Witness ==
    /\ cycle.origin = "pair" /\ cycle.steps = 1 /\ cycle.last = "index"
    /\ cycle.given = [stem |-> "jia", branch |-> "chou"]
    /\ cycle.index = 0

\* C22: calculateDaeun given a Month pair that never occurs in the cycle
\* returns 13 Decade Entries identical to those for the Month pair (jia, zi)
\* with all other inputs equal.
C22_DaeunMonthFallback ==
    (daeunCall.pc = "done"
        /\ [stem |-> daeunCall.args.monthStem, branch |-> daeunCall.args.monthBranch]
              \notin ValidPairs)
        => LET a == daeunCall.args
           IN  /\ Len(daeunCall.ret.daeun) = 13
               /\ daeunCall.ret.daeun
                    = calculateDaeun(a.birthYear, a.birthMonth, a.birthDay, a.gender,
                                     "jia", "zi", a.yearStem).daeun
               /\ EntryPair(0) \in {PairAtPosition(1), PairAtPosition(59)}

C22_Witness ==
    /\ daeunCall.pc = "done"
    /\ daeunCall.args.monthStem = "jia" /\ daeunCall.args.monthBranch = "chou"
    /\ daeunCall.args.yearStem = "jia" /\ daeunCall.args.gender = "male"
    /\ EntryPair(0) = [stem |-> "yi", branch |-> "chou"]

\* C23: the 13 Decade Entries cover ages from 0: for every valid birth month
\* and day, every integer age from 0 up to the last entry's ending age lies
\* within [startAge, endAge] of at least one entry.  (Ages in tenths.)
C23_DaeunCoversFromZero ==
    (daeunCall.pc = "done"
        /\ daeunCall.args.birthDay <= daysInMonth[daeunCall.args.birthMonth])
        => LET e == daeunCall.ret.daeun
           IN  \A age \in 0..(e[13].endAge \div 10) :
                  \E i \in 1..13 : e[i].startAge <= 10 * age /\ 10 * age <= e[i].endAge

\* C25: every Decade Entry's starting year is birthYear + floor(its starting
\* age); entry 0 starts in birthYear + floor(startAge) and consecutive
\* entries' starting years differ by exactly 10.  (Ages in tenths.)
C25_DaeunStartYear ==
    daeunCall.pc = "done"
        => LET e == daeunCall.ret.daeun
               y == daeunCall.args.birthYear
           IN  /\ \A i \in 1..13 :
                     \E f \in 0..140 : /\ 10 * f <= e[i].startAge
                                        /\ e[i].startAge < 10 * f + 10
                                        /\ e[i].startYear = y + f
               /\ \E f \in 0..10 : /\ 10 * f <= daeunCall.ret.startAge
                                     /\ daeunCall.ret.startAge < 10 * f + 10
                                     /\ e[1].startYear = y + f
               /\ \A i \in 1..12 : e[i + 1].startYear - e[i].startYear = 10

C25_Witness ==
    /\ daeunCall.pc = "done" /\ daeunCall.args.birthYear = 1984
    /\ daeunCall.args.birthMonth = 5 /\ daeunCall.args.birthDay = 14
    /\ daeunCall.ret.startAge = 57
    /\ daeunCall.ret.daeun[1].startYear = 1989 /\ daeunCall.ret.daeun[2].startYear = 1999

\* C29: for every birth month and every birth day from 1 to the month's
\* length in the non-leap table, the rounded days-to-term value is within
\* 0..30 without the absolute-value branch being taken, and the starting age
\* is between 0 and 10; the absolute-value branch is taken only for a day
\* greater than the month's table length.  (Ages in tenths.)
C29_DaysToTermRange ==
    daeunCall.pc = "done"
        => LET a == daeunCall.args
               rounded == RoundedDays(a.birthMonth, a.birthDay)
               inTable == a.birthDay \in 1..daysInMonth[a.birthMonth]
           IN  /\ inTable => /\ rounded \in 0..30
                             /\ DaysToJeolgi(a.birthMonth, a.birthDay) = rounded
                             /\ daeunCall.ret.startAge \in 0..100
               /\ rounded < 0 => ~inTable

C29_Witness ==
    /\ daeunCall.pc = "done"
    /\ daeunCall.args.birthMonth = 1 /\ daeunCall.args.birthDay = 1
    /\ RoundedDays(1, 1) = 30 /\ daeunCall.ret.startAge = 100

\* The positions of allChars whose string has element e in the element map,
\* and those whose string has no key in it.
CharsOfElement(e) ==
    {k \in 1..Len(charTally.allChars) :
        /\ charTally.allChars[k] \in DOMAIN ELEMENT_MAP
        /\ ELEMENT_MAP[charTally.allChars[k]] = e}

UnknownChars ==
    {k \in 1..Len(charTally.allChars) : charTally.allChars[k] \notin DOMAIN ELEMENT_MAP}

\* C24: in the element tally, the count of each element e is the number of
\* the eight input symbols whose element in the element map is e; a symbol
\* not in the map adds to no count, so the five counts sum to 8 minus the
\* number of unknown symbols.
C24_TallyPerElement ==
    charTally.pc = "done"
        => /\ \A e \in DOMAIN ZeroCounts :
                 charTally.counts[e] = Cardinality(CharsOfElement(e))
           /\ charTally.counts.Wood + charTally.counts.Fire + charTally.counts.Earth
                 + charTally.counts.Metal + charTally.counts.Water
                 = 8 - Cardinality(UnknownChars)

C24_Witness ==
    /\ charTally.pc = "done"
    /\ charTally.allChars = <<"jia", Malformed, "wu4", "yin", "jia", Malformed, "xin", "hai">>
    /\ charTally.counts = [Wood |-> 3, Fire |-> 0, Earth |-> 1, Metal |-> 1, Water |-> 1]

\* The core outputs as determined by the birth date, the gender and the eight
\* pillar symbols alone.
CoreOf(in) ==
    LET d == calculateDaeun(in.birthYear, in.birthMonth, in.birthDay, in.gender,
                            in.monthStem, in.monthBranch, in.yearStem)
    IN  [yearPillar |-> createPillar(in.dayStem, in.yearStem, in.yearBranch),
         monthPillar |-> createPillar(in.dayStem, in.monthStem, in.monthBranch),
         dayPillar |-> createPillar(in.dayStem, in.dayStem, in.dayBranch),
         hourPillar |-> createPillar(in.dayStem, in.hourStem, in.hourBranch),
         elementCounts |-> CountAll(allCharsOf(in), 8),
         daeun |-> d.daeun,
         saeun |-> calculateSaeun(in.birthYear),
         wolun |-> calculateWolun(in.birthYear),
         daeunStartAge |-> d.startAge]

CoreOutputs(r) ==
    [yearPillar |-> r.yearPillar, monthPillar |-> r.monthPillar,
     dayPillar |-> r.dayPillar, hourPillar |-> r.hourPillar,
     elementCounts |-> r.elementCounts, daeun |-> r.daeun, saeun |-> r.saeun,
     wolun |-> r.wolun, daeunStartAge |-> r.daeunStartAge]

\* C26: the core outputs of a successful analyzeSaju run do not depend on the
\* stored API key / client nor on the service's response content: whatever
\* key is set, and whenever, and whatever the response, the four Pillars, the
\* element counts, the Decade, Year and Month Entries and the Decade starting
\* age are those determined by the birth date, gender and pillar symbols, so
\* two runs that agree on these agree on the core outputs.
C26_CoreIndependentOfService ==
    analysis.pc = "returned"
        => CoreOutputs(analysis.result) = CoreOf(analysis.input)

C26_Witness ==
    /\ analysis.pc = "returned" /\ analysis.apiKey = "key2" /\ analysis.text = "1"
    /\ analysis.input.birthYear = 1984 /\ analysis.input.birthDay = 15
    /\ analysis.result.missingElements = Undefined
    /\ analysis.result.daeunStartAge = 53
    /\ analysis.result.yearPillar.stem = "jia"

\* The cycle position of Month Entry n of a finished call.
WolunPosition(n) == getGanZhiIndex(wolunCall.ret[n].stem, wolunCall.ret[n].branch)

\* C27: across the 720 Month Entries every entry is one of the 60 valid
\* pairs and each entry's cycle position is one more (mod 60) than the
\* previous entry's, also from month 12 of a year to month 1 of the next;
\* hence the entry for (year, m) equals the entry for (year + 5, m).
C27_WolunConsecutive ==
    wolunCall.pc = "done"
        => LET e == wolunCall.ret
           IN  /\ \A n \in 1..720 : [stem |-> e[n].stem, branch |-> e[n].branch] \in ValidPairs
               /\ \A n \in 1..719 : WolunPosition(n + 1) = (WolunPosition(n) + 1) % 60
               /\ \A n \in 1..660 : /\ e[n + 60].year = e[n].year + 5
                                      /\ e[n + 60].month = e[n].month
                                      /\ e[n + 60].stem = e[n].stem
                                      /\ e[n + 60].branch = e[n].branch

C27_Witness ==
    /\ wolunCall.pc = "done" /\ wolunCall.birthYear = 1984
    /\ wolunCall.ret[12].stem = "ding" /\ wolunCall.ret[12].branch = "chou"
    /\ wolunCall.ret[13].stem = "wu4" /\ wolunCall.ret[13].branch = "yin"
    /\ wolunCall.ret[73].year = 1990 /\ wolunCall.ret[73].stem = "wu4"

\* The five elements in generation order.
ElementOrdinal(e) == CHOOSE i \in 0..4 : ElementNames[i + 1] = e

\* C28: for each of the 12 branches the element of the branch in the element
\* map is the element of its main-qi stem, so the Ten God label of a branch
\* agrees with the element the tally counts the branch under: the label is
\* one of the pair at step (branch element - Day Master element) mod 5.
C28_BranchElementIsMainQi ==
    /\ \A b \in Branches : ELEMENT_MAP[b] = ELEMENT_MAP[BRANCH_MAIN_QI[b]]
    /\ (tenGod.pc = "done" /\ tenGod.dayStem \in Stems /\ tenGod.target \in Branches)
          => LET k == (ElementOrdinal(ELEMENT_MAP[tenGod.target])
                        - ElementOrdinal(ELEMENT_MAP[tenGod.dayStem])) % 5
             IN  tenGod.ret \in {LabelPairs[k + 1][1], LabelPairs[k + 1][2]}

C28_Witness ==
    /\ tenGod.pc = "done" /\ tenGod.dayStem = "jia" /\ tenGod.target = "chou"
    /\ ELEMENT_MAP["chou"] = "Earth" /\ tenGod.ret = "jeongjae"

\* C30: the history consultSaju passes to the chat session never begins with
\* a model turn: when the caller's history is non-empty and its first turn
\* has role model, exactly one synthetic user turn is put in front and the
\* caller's turns follow unchanged and in order; otherwise the history passed
\* is the caller's unchanged; the caller's own array is never modified.
C30_HistoryStartsWithUser ==
    /\ consult.chatHistory = consult.given
    /\ consult.created
          => LET modelFirst == Len(consult.given) > 0 /\ consult.given[1].role = "model"
             IN  /\ Len(consult.history) > 0 => consult.history[1].role # "model"
                 /\ modelFirst
                       => /\ Len(consult.history) = Len(consult.given) + 1
                          /\ consult.history[1].role = "user"
                          /\ \A i \in 1..Len(consult.given) :
                                consult.history[i + 1] = consult.given[i]
                 /\ ~modelFirst => consult.history = consult.given

C30_Witness ==
    /\ consult.created
    /\ consult.given = <<[role |-> "model", text |-> "a"], [role |-> "user", text |-> "q"]>>
    /\ Len(consult.history) = 3 /\ consult.history[1] = SyntheticTurn
    /\ consult.chatHistory = consult.given

=============================================================================
